---- MODULE Spec2Model ----
(***************************************************************************)
(* Model of the subscription revenue calculator (src/.../App.js): the CSV  *)
(* load pipeline of FileUpload, the App state (data, error), the Dashboard *)
(* filter state, the derived filteredData / summary / funnelData and the   *)
(* csv of exportData.                                                      *)
(*                                                                         *)
(* Strings read from the CSV are sequences of one-character strings, so    *)
(* that parseInt / parseFloat / new Date are modelled by what they do.     *)
(* Every JavaScript value stored in a record is a tagged record            *)
(*   [t, k, n, d, s]                                                       *)
(* t = "num": k = "fin" (the rational n/d, d > 0, reduced), "nan", "inf",  *)
(*            "ninf";                                                      *)
(* t = "date": a Date whose time value is n (in hours since the epoch) or  *)
(*            NaN when k = "nan" (Invalid Date);                           *)
(* t = "str": the string s.                                                *)
(*                                                                         *)
(* Papa.parse, the DayPicker and date-fns are libraries: what they hand to *)
(* the callbacks of App.js is an input.  The loading flag of FileUpload    *)
(* only selects the "Processing..." label and is left out, as is onDrop    *)
(* with no accepted file, which returns at once.  The pending parses are a *)
(* set: dropping again a file whose parse is still pending adds nothing.   *)
(***************************************************************************)
EXTENDS Integers, Sequences, FiniteSets, TLC

(***************************************************************************)
(* JavaScript numbers                                                      *)
(***************************************************************************)
Abs(x) == IF x < 0 THEN -x ELSE x

RECURSIVE GCD(_, _)
GCD(a, b) == IF b = 0 THEN a ELSE GCD(b, a % b)

Sign(x) == IF x < 0 THEN -1 ELSE IF x > 0 THEN 1 ELSE 0

NaN == [t |-> "num", k |-> "nan", n |-> 0, d |-> 1, s |-> <<>>]
PosInf == [t |-> "num", k |-> "inf", n |-> 0, d |-> 1, s |-> <<>>]
NegInf == [t |-> "num", k |-> "ninf", n |-> 0, d |-> 1, s |-> <<>>]

\* the finite number a/b (b # 0), reduced
Frac(a, b) ==
    LET g == GCD(Abs(a), Abs(b))
        sg == IF b < 0 THEN -1 ELSE 1
    IN [t |-> "num", k |-> "fin", n |-> (sg * a) \div g, d |-> Abs(b) \div g, s |-> <<>>]

Num(i) == Frac(i, 1)
Zero == Num(0)

IsFinite(x) == x.k = "fin"
IsNaN(x) == x.k = "nan"
\* sign of a non-NaN number
SignOf(x) == IF x.k = "inf" THEN 1 ELSE IF x.k = "ninf" THEN -1 ELSE Sign(x.n)
InfOfSign(sg) == IF sg > 0 THEN PosInf ELSE NegInf

\* ToBoolean of a number: 0 and NaN are falsy
Truthy(x) == ~ (IsNaN(x) \/ (IsFinite(x) /\ x.n = 0))

\* x + y
Add(x, y) ==
    IF IsNaN(x) \/ IsNaN(y) THEN NaN
    ELSE IF IsFinite(x) /\ IsFinite(y) THEN Frac(x.n * y.d + y.n * x.d, x.d * y.d)
    ELSE IF IsFinite(x) THEN y
    ELSE IF IsFinite(y) THEN x
    ELSE IF x.k = y.k THEN x ELSE NaN

\* x * y
Mul(x, y) ==
    IF IsNaN(x) \/ IsNaN(y) THEN NaN
    ELSE IF IsFinite(x) /\ IsFinite(y) THEN Frac(x.n * y.n, x.d * y.d)
    ELSE IF SignOf(x) = 0 \/ SignOf(y) = 0 THEN NaN
    ELSE InfOfSign(SignOf(x) * SignOf(y))

Neg(x) ==
    IF IsNaN(x) THEN NaN
    ELSE IF x.k = "inf" THEN NegInf
    ELSE IF x.k = "ninf" THEN PosInf
    ELSE Frac(-x.n, x.d)

\* x - y
Sub(x, y) == Add(x, Neg(y))

\* x / y
Div(x, y) ==
    IF IsNaN(x) \/ IsNaN(y) THEN NaN
    ELSE IF IsFinite(y) THEN
        IF y.n = 0 THEN (IF SignOf(x) = 0 THEN NaN ELSE InfOfSign(SignOf(x)))
        ELSE IF IsFinite(x) THEN Frac(x.n * y.d, x.d * y.n)
        ELSE InfOfSign(SignOf(x) * Sign(y.n))
    ELSE IF IsFinite(x) THEN Zero
    ELSE NaN

\* x >= y and x <= y on numbers: false as soon as one side is NaN
Geq(x, y) ==
    IF IsNaN(x) \/ IsNaN(y) THEN FALSE
    ELSE IF x.k = "inf" \/ y.k = "ninf" THEN TRUE
    ELSE IF x.k = "ninf" \/ y.k = "inf" THEN FALSE
    ELSE x.n * y.d >= y.n * x.d

Leq(x, y) == Geq(y, x)

\* a number kept as it is, NaN included
OrZeroKeepsNaN(x) == x

\* a || 0 on numbers
OrZero(x) == IF Truthy(x) THEN x ELSE Zero

(***************************************************************************)
(* Strings: parseInt(s, 10), parseFloat(s), new Date(s)                    *)
(***************************************************************************)
Digits == {"0", "1", "2", "3", "4", "5", "6", "7", "8", "9"}
WhiteSpace == {" ", "\t"}

DigitVal(c) ==
    CASE c = "0" -> 0 [] c = "1" -> 1 [] c = "2" -> 2 [] c = "3" -> 3 [] c = "4" -> 4
      [] c = "5" -> 5 [] c = "6" -> 6 [] c = "7" -> 7 [] c = "8" -> 8 [] c = "9" -> 9

\* s without its first i characters
DropChars(s, i) == SubSeq(s, i + 1, Len(s))

RECURSIVE TrimLeft(_)
TrimLeft(s) == IF s # <<>> /\ Head(s) \in WhiteSpace THEN TrimLeft(Tail(s)) ELSE s

\* the length of the longest prefix of s made of digits
RECURSIVE DigitRun(_)
DigitRun(s) == IF s # <<>> /\ Head(s) \in Digits THEN 1 + DigitRun(Tail(s)) ELSE 0

\* the value of the digit string s, continuing from acc
RECURSIVE DigitsValue(_, _)
DigitsValue(s, acc) ==
    IF s = <<>> THEN acc ELSE DigitsValue(Tail(s), 10 * acc + DigitVal(Head(s)))

RECURSIVE Pow10(_)
Pow10(e) == IF e = 0 THEN 1 ELSE 10 * Pow10(e - 1)

HasSign(s) == s # <<>> /\ Head(s) \in {"+", "-"}
SignFactor(s) == IF s # <<>> /\ Head(s) = "-" THEN -1 ELSE 1
Unsigned(s) == IF HasSign(s) THEN Tail(s) ELSE s

IsPrefix(p, s) == Len(p) <= Len(s) /\ SubSeq(s, 1, Len(p)) = p

InfinityWord == <<"I", "n", "f", "i", "n", "i", "t", "y">>

\* parseInt(s, 10): leading white space, an optional sign, then the longest
\* run of decimal digits; NaN when there is no digit
parseInt(s) ==
    LET u == TrimLeft(s)
        body == Unsigned(u)
        k == DigitRun(body)
    IN IF k = 0 THEN NaN
       ELSE Num(SignFactor(u) * DigitsValue(SubSeq(body, 1, k), 0))

\* parseFloat(s): leading white space, an optional sign, then Infinity or the
\* longest prefix digits[.digits] / .digits; NaN when there is none
\* (exponent parts do not occur in the cells used here)
parseFloat(s) ==
    LET u == TrimLeft(s)
        body == Unsigned(u)
        ki == DigitRun(body)
        rest == DropChars(body, ki)
        kf == IF rest # <<>> /\ Head(rest) = "." THEN DigitRun(Tail(rest)) ELSE 0
        ip == DigitsValue(SubSeq(body, 1, ki), 0)
        fp == DigitsValue(SubSeq(rest, 2, kf + 1), 0)
    IN IF IsPrefix(InfinityWord, body) THEN InfOfSign(SignFactor(u))
       ELSE IF ki = 0 /\ kf = 0 THEN NaN
       ELSE Frac(SignFactor(u) * (ip * Pow10(kf) + fp), Pow10(kf))

(***************************************************************************)
(* Dates: new Date(s) for the ISO date-only form YYYY-MM-DD, which is UTC  *)
(* midnight of that day, and for the ISO date-time form                    *)
(* YYYY-MM-DDTHH:00:00.000Z; every other string used here is no date at    *)
(* all and gives Invalid Date (time value NaN).  Time values are counted   *)
(* in hours since 1970-01-01T00:00Z.                                       *)
(***************************************************************************)
IsLeap(y) == (y % 4 = 0 /\ y % 100 # 0) \/ y % 400 = 0

DaysInMonth(y, m) ==
    IF m = 2 THEN (IF IsLeap(y) THEN 29 ELSE 28)
    ELSE IF m \in {4, 6, 9, 11} THEN 30 ELSE 31

\* days from 1970-01-01 to the civil date y-m-d
DaysFromCivil(y, m, d) ==
    LET yy == IF m <= 2 THEN y - 1 ELSE y
        era == yy \div 400
        yoe == yy - era * 400
        mp == IF m > 2 THEN m - 3 ELSE m + 9
        doy == (153 * mp + 2) \div 5 + d - 1
        doe == yoe * 365 + yoe \div 4 - yoe \div 100 + doy
    IN era * 146097 + doe - 719468

AllDigits(s) == \A i \in 1..Len(s) : s[i] \in Digits

IsIsoDate(s) ==
    /\ Len(s) = 10
    /\ s[5] = "-" /\ s[8] = "-"
    /\ AllDigits(SubSeq(s, 1, 4)) /\ AllDigits(SubSeq(s, 6, 7)) /\ AllDigits(SubSeq(s, 9, 10))
    /\ LET y == DigitsValue(SubSeq(s, 1, 4), 0)
           m == DigitsValue(SubSeq(s, 6, 7), 0)
           d == DigitsValue(SubSeq(s, 9, 10), 0)
       IN m \in 1..12 /\ d \in 1..DaysInMonth(y, m)

DateAt(h) == [t |-> "date", k |-> "fin", n |-> h, d |-> 1, s |-> <<>>]
InvalidDate == [t |-> "date", k |-> "nan", n |-> 0, d |-> 1, s |-> <<>>]

\* the date-time form at a whole hour: the date, T, HH and :00:00.000Z
IsIsoDateTime(s) ==
    /\ Len(s) = 24
    /\ IsIsoDate(SubSeq(s, 1, 10))
    /\ s[11] = "T"
    /\ AllDigits(SubSeq(s, 12, 13)) /\ DigitsValue(SubSeq(s, 12, 13), 0) < 24
    /\ SubSeq(s, 14, 24) = <<":", "0", "0", ":", "0", "0", ".", "0", "0", "0", "Z">>

\* the hours from the epoch to midnight of the date s starts with
MidnightOf(s) ==
    24 * DaysFromCivil(DigitsValue(SubSeq(s, 1, 4), 0),
                       DigitsValue(SubSeq(s, 6, 7), 0),
                       DigitsValue(SubSeq(s, 9, 10), 0))

NewDate(s) ==
    IF IsIsoDate(s) THEN DateAt(MidnightOf(s))
    ELSE IF IsIsoDateTime(s) THEN DateAt(MidnightOf(s) + DigitsValue(SubSeq(s, 12, 13), 0))
    ELSE InvalidDate

\* the number a Date converts to in a relational comparison
TimeValue(dt) == IF dt.k = "nan" THEN NaN ELSE Num(dt.n)

Str(s) == [t |-> "str", k |-> "", n |-> 0, d |-> 1, s |-> s]

(***************************************************************************)
(* Constants of App.js                                                     *)
(***************************************************************************)
REQUIRED_COLUMNS ==
    <<"Clicks", "Cost", "Avg. CPC", "Installs", "Trials", "Subscriptions",
      "Subscription Value", "Start Date", "End Date", "Ad Group">>

FUNNEL_STAGES == <<"Clicks", "Installs", "Trials", "Subscriptions">>

AllAdGroups == <<"A", "l", "l", " ", "A", "d", " ", "G", "r", "o", "u", "p", "s">>

\* the dashboard table renders filteredData.slice(0, 10)
TABLE_ROWS == 10

IntColumns == {"Clicks", "Installs", "Trials", "Subscriptions"}
FloatColumns == {"Cost", "Avg. CPC", "Subscription Value"}
DateColumns == {"Start Date", "End Date"}

Range(f) == {f[i] : i \in DOMAIN f}

safeDivide(numerator, denominator) ==
    IF Truthy(denominator) THEN Div(numerator, denominator) ELSE Zero

(***************************************************************************)
(* The load pipeline: the complete callback handed to Papa.parse.  A       *)
(* parsed row is [null, cells]: cells maps each header field to its        *)
(* string; null marks a row that is no object (malformed structure).       *)
(***************************************************************************)
UndefinedWord == <<"u", "n", "d", "e", "f", "i", "n", "e", "d">>

\* ToString(row[col]): an absent property is undefined
Cell(row, col) == IF col \in DOMAIN row.cells THEN row.cells[col] ELSE UndefinedWord

\* the header fields that are not required columns
MissingColumnsSwapped(headers) ==
    SelectSeq(headers, LAMBDA col : col \notin Range(REQUIRED_COLUMNS))

\* REQUIRED_COLUMNS.filter(col => !headers.includes(col))
MissingColumns(headers) ==
    SelectSeq(REQUIRED_COLUMNS, LAMBDA col : col \notin Range(headers))

\* the object literal of lines 98-110: id, then the spread row, then the
\* nine converted properties; a later property replaces an earlier one
ProcessRow(row, index) ==
    [key \in {"id"} \cup DOMAIN row.cells \cup IntColumns \cup FloatColumns \cup DateColumns |->
        IF key \in IntColumns THEN OrZero(parseInt(Cell(row, key)))
        ELSE IF key \in FloatColumns THEN OrZero(parseFloat(Cell(row, key)))
        ELSE IF key \in DateColumns THEN
            (IF key \in DOMAIN row.cells THEN NewDate(row.cells[key]) ELSE InvalidDate)
        ELSE IF key \in DOMAIN row.cells THEN Str(row.cells[key])
        ELSE Num(index)]

\* reading a property of a row that is no object raises a TypeError
RowThrows(row) == row.null

\* the zero-based index of the first row whose conversion throws, or -1
FirstThrow(rows) ==
    IF \E i \in 1..Len(rows) : RowThrows(rows[i])
    THEN (CHOOSE i \in 1..Len(rows) :
            RowThrows(rows[i]) /\ \A j \in 1..(i - 1) : ~ RowThrows(rows[j])) - 1
    ELSE -1

\* data.map((row, index) => ...) when no row throws
ProcessedData(rows) == [i \in 1..Len(rows) |-> ProcessRow(rows[i], i - 1)]

(***************************************************************************)
(* Dashboard: the filter state and the values derived from it.             *)
(* filters = [dateRange, adGroup]; dateRange is what the DayPicker handed  *)
(* to onSelect: undefined (undef), or {from, to}, each a Date or unset.    *)
(***************************************************************************)
Unset == [set |-> FALSE, v |-> 0]
Day(h) == [set |-> TRUE, v |-> h]

DateRange(from, to) == [undef |-> FALSE, from |-> from, to |-> to]
UndefinedRange == [undef |-> TRUE, from |-> Unset, to |-> Unset]

DefaultFilters == [dateRange |-> DateRange(Unset, Unset), adGroup |-> AllAdGroups]

\* x < y on numbers
Lt(x, y) == ~ IsNaN(x) /\ ~ IsNaN(y) /\ ~ Geq(x, y)

\* the upper end compared with End Date
InDateRangeEndDate(item, f) ==
    \/ ~ f.dateRange.from.set
    \/ /\ Geq(TimeValue(item["Start Date"]), Num(f.dateRange.from.v))
       /\ (~ f.dateRange.to.set \/ Leq(TimeValue(item["End Date"]), Num(f.dateRange.to.v)))

\* the range test written with negated comparisons
InDateRangeNegated(item, f) ==
    \/ ~ f.dateRange.from.set
    \/ /\ ~ Lt(TimeValue(item["Start Date"]), Num(f.dateRange.from.v))
       /\ (~ f.dateRange.to.set \/ ~ Lt(Num(f.dateRange.to.v), TimeValue(item["Start Date"])))

\* line 247
InDateRange(item, f) ==
    \/ ~ f.dateRange.from.set
    \/ /\ Geq(TimeValue(item["Start Date"]), Num(f.dateRange.from.v))
       /\ (~ f.dateRange.to.set \/ Leq(TimeValue(item["Start Date"]), Num(f.dateRange.to.v)))

\* line 248
InAdGroup(item, f) ==
    f.adGroup = AllAdGroups \/ item["Ad Group"] = Str(f.adGroup)

\* the filter callback reads filters.dateRange.from: a TypeError when
\* dateRange is undefined, raised for the first item it is called on
FilterThrows(rows, f) == rows # <<>> /\ f.dateRange.undef

\* the kept records in descending order of position
FilteredDataReversed(rows, f) ==
    LET kept == SelectSeq(rows, LAMBDA item : InDateRange(item, f) /\ InAdGroup(item, f))
    IN [i \in 1..Len(kept) |-> kept[Len(kept) + 1 - i]]

\* data.filter(item => inDateRange && inAdGroup), when it does not throw
FilteredData(rows, f) ==
    SelectSeq(rows, LAMBDA item : InDateRange(item, f) /\ InAdGroup(item, f))

TotalKeys == {"Clicks", "Cost", "Installs", "Trials", "Subscriptions", "Subscription Value"}

InitialTotals == [key \in TotalKeys |-> Zero]

\* the reducer with the Subscription Value column summed as it is
AccumulatePlainValue(acc, row) == [key \in TotalKeys |-> Add(acc[key], row[key])]

\* the reducer of lines 255-263
Accumulate(acc, row) ==
    [key \in TotalKeys |->
        IF key = "Subscription Value"
        THEN Add(acc[key], Mul(row["Subscriptions"], row["Subscription Value"]))
        ELSE Add(acc[key], row[key])]

RECURSIVE Reduce(_, _)
Reduce(rows, acc) ==
    IF rows = <<>> THEN acc ELSE Reduce(Tail(rows), Accumulate(acc, Head(rows)))

Totals(rows) == Reduce(rows, InitialTotals)

RatioKeys ==
    {"cpi", "installRate", "installToTrialRate", "trialCost", "installToPaidRate",
     "cac", "valueCostRatio", "overallConversion", "roi"}

\* lines 265-276
Summary(rows) ==
    LET totals == Totals(rows)
    IN [key \in TotalKeys \cup RatioKeys |->
        CASE key \in TotalKeys -> totals[key]
          [] key = "cpi" -> safeDivide(totals["Cost"], totals["Installs"])
          [] key = "installRate" -> safeDivide(totals["Installs"], totals["Clicks"])
          [] key = "installToTrialRate" -> safeDivide(totals["Trials"], totals["Installs"])
          [] key = "trialCost" -> safeDivide(totals["Cost"], totals["Trials"])
          [] key = "installToPaidRate" -> safeDivide(totals["Subscriptions"], totals["Installs"])
          [] key = "cac" -> safeDivide(totals["Cost"], totals["Subscriptions"])
          [] key = "valueCostRatio" -> safeDivide(totals["Subscription Value"], totals["Cost"])
          [] key = "overallConversion" -> safeDivide(totals["Subscriptions"], totals["Clicks"])
          [] key = "roi" ->
                safeDivide(Sub(totals["Subscription Value"], totals["Cost"]), totals["Cost"])]

\* line 397: the "Trial to Subscription" rate of the view
TrialToSubscription(s) == safeDivide(s["Subscriptions"], s["Trials"])

\* the funnel with every stage capped by the stage before it
FunnelDataCapped(s) ==
    [i \in 1..Len(FUNNEL_STAGES) |->
        [name |-> FUNNEL_STAGES[i],
         value |-> IF i > 1 /\ Geq(s[FUNNEL_STAGES[i]], s[FUNNEL_STAGES[i - 1]])
                   THEN s[FUNNEL_STAGES[i - 1]]
                   ELSE s[FUNNEL_STAGES[i]]]]

\* lines 279-282
FunnelData(s) == [i \in 1..Len(FUNNEL_STAGES) |->
                    [name |-> FUNNEL_STAGES[i], value |-> s[FUNNEL_STAGES[i]]]]

\* the options of the ad-group select, line 173
AdGroupOptions(rows) == {AllAdGroups} \cup {rows[i]["Ad Group"].s : i \in 1..Len(rows)}

Min(a, b) == IF a < b THEN a ELSE b

\* lines 433-437: format(row[col], 'yyyy-MM-dd') raises a RangeError on an
\* Invalid Date, for the rows the table shows
TableThrows(shown) ==
    \E i \in 1..Min(TABLE_ROWS, Len(shown)) :
        \E col \in DateColumns : shown[i][col].k = "nan"

(***************************************************************************)
(* Inputs: the cells, rows and files the user can drop                     *)
(***************************************************************************)
MaxInflight == 2
MaxRows == 2

sEmpty == <<>>
s0 == <<"0">>
s1 == <<"1">>
s2 == <<"2">>
s4 == <<"4">>
s5 == <<"5">>
s7 == <<"7">>
s10 == <<"1", "0">>
s20 == <<"2", "0">>
s50 == <<"5", "0">>
s100 == <<"1", "0", "0">>
sHalf == <<"0", ".", "5">>
sDotFive == <<".", "5">>
s2p5 == <<"2", ".", "5">>
sNeg1 == <<"-", "1">>
sSp7 == <<" ", "7">>
sAbc == <<"a", "b", "c">>
s12abc == <<"1", "2", "a", "b", "c">>
sJan15 == <<"2", "0", "2", "4", "-", "0", "1", "-", "1", "5">>
sJan20 == <<"2", "0", "2", "4", "-", "0", "1", "-", "2", "0">>
sNoDate == <<"n", "/", "a">>
gA == <<"A">>
gB == <<"B">>
sX == <<"x">>

\* the days the date picker offers: 2024-01-15 and 2024-01-18 at midnight
PickerDays == {24 * DaysFromCivil(2024, 1, 15), 24 * DaysFromCivil(2024, 1, 18)}

\* what DayPicker (mode="range") hands to onSelect
PickerRanges ==
    {UndefinedRange}
    \cup {DateRange(Day(a), Unset) : a \in PickerDays}
    \cup {DateRange(Day(a), Day(b)) : <<a, b>> \in {p \in PickerDays \X PickerDays : p[1] <= p[2]}}

Row(cl, co, cpc, ins, tr, su, sv, sd, ed, ag) ==
    [null |-> FALSE,
     cells |-> [col \in Range(REQUIRED_COLUMNS) |->
        CASE col = "Clicks" -> cl [] col = "Cost" -> co [] col = "Avg. CPC" -> cpc
          [] col = "Installs" -> ins [] col = "Trials" -> tr [] col = "Subscriptions" -> su
          [] col = "Subscription Value" -> sv [] col = "Start Date" -> sd
          [] col = "End Date" -> ed [] col = "Ad Group" -> ag]]

\* a row that is no object
NullRow == [null |-> TRUE, cells |-> <<>>]

\* the cells of row under the header fields only, with extra cells added
WithFields(row, fields, extra) ==
    [row EXCEPT !.cells = [col \in Range(fields) |->
        IF col \in DOMAIN extra THEN extra[col] ELSE row.cells[col]]]

rExample == Row(s100, s50, sHalf, s20, s10, s5, s20, sJan15, sJan20, gA)
rNoInstalls == Row(s10, s5, sHalf, s0, s0, s0, s20, sJan20, sJan20, gB)
rAllZero == Row(s0, s0, sEmpty, s0, s0, s0, s0, sJan15, sJan15, gB)
rMessy == Row(sSp7, s2p5, sAbc, s12abc, sEmpty, sNeg1, sDotFive, sJan20, sJan15, gA)
rInfCost == Row(s10, InfinityWord, s1, s4, s2, s1, s20, sJan15, sJan15, gA)
rInfValue == Row(s10, s5, s1, s4, s2, s0, InfinityWord, sJan20, sJan20, gB)
rNoDate == Row(s10, s5, s1, s4, s2, s1, s20, sNoDate, sJan20, gB)

\* what Papa.parse reports for a file: io # "" is a read failure (the error
\* callback); otherwise results.errors, results.meta.fields, results.data
File(fields, rows) == [io |-> "", errors |-> <<>>, fields |-> fields, data |-> rows]

RECURSIVE SeqsUpTo(_, _)
SeqsUpTo(S, n) ==
    IF n = 0 THEN {<<>>}
    ELSE LET shorter == SeqsUpTo(S, n - 1)
         IN shorter \cup {Append(q, x) : q \in {r \in shorter : Len(r) = n - 1}, x \in S}

\* TABLE_ROWS good rows and then one whose Start Date is no date
LongRows == [i \in 1..(TABLE_ROWS + 1) |-> IF i <= TABLE_ROWS THEN rExample ELSE rNoDate]

ExtraFields == <<"id", "Campaign">> \o REQUIRED_COLUMNS
ExtraCells == [col \in {"id", "Campaign"} |-> IF col = "id" THEN s7 ELSE sX]

FileGood == File(REQUIRED_COLUMNS, <<rExample, rNoInstalls>>)
FileExtra ==
    File(ExtraFields, <<WithFields(rExample, ExtraFields, ExtraCells),
                        WithFields(rMessy, ExtraFields, ExtraCells)>>)
NoValueFields == SelectSeq(REQUIRED_COLUMNS, LAMBDA col : col # "Subscription Value")
FileNoValue == File(NoValueFields, <<WithFields(rExample, NoValueFields, <<>>)>>)
FewFields == <<"Ad Group", "End Date", "clicks", "Cost", "Installs", "Subscriptions">>
FileFewFields ==
    File(FewFields, <<WithFields(rExample, FewFields, [col \in {"clicks"} |-> s100])>>)
FileParseErrors ==
    [File(REQUIRED_COLUMNS, <<rExample>>) EXCEPT
        !.errors = <<"Too few fields: expected 10 fields but parsed 3", "Quoted field unterminated">>]
FileUnreadable == [File(<<>>, <<>>) EXCEPT !.io = "The file could not be read"]
FileNullRow == File(REQUIRED_COLUMNS, <<rExample, NullRow, NullRow>>)
FileLong == File(REQUIRED_COLUMNS, LongRows)
FileEmpty == File(REQUIRED_COLUMNS, <<>>)

\* the files of the application-level specification
Files ==
    {FileGood, FileExtra, FileNoValue, FileFewFields, FileParseErrors, FileUnreadable,
     FileNullRow, FileLong, FileEmpty}

EngineRows == {rExample, rNoInstalls, rAllZero, rMessy, rInfCost, rInfValue, rNoDate}

\* the files of the engine-level specification: every table of at most
\* MaxRows rows, and the long one
EngineFiles ==
    {File(REQUIRED_COLUMNS, rows) : rows \in SeqsUpTo(EngineRows, MaxRows)} \cup {FileLong}

(***************************************************************************)
(* Export: window.Papa.unparse(filteredData), given as the table that      *)
(* Papa.parse reads back from the text it writes.  unparse takes the       *)
(* columns from Object.keys of the first record and writes a Date as       *)
(* JSON.stringify(date).slice(1, 25) and every other value as its          *)
(* toString(); quoting a field and reading the quoted field back give the  *)
(* same string.                                                            *)
(***************************************************************************)
DigitChar(v) == CHOOSE c \in Digits : DigitVal(c) = v

RECURSIVE NatToString(_)
NatToString(v) ==
    IF v < 10 THEN <<DigitChar(v)>>
    ELSE Append(NatToString(v \div 10), DigitChar(v % 10))

\* the digits of r/d after the decimal point, for 0 <= r < d; they end,
\* since the numbers read from decimal strings have a power of ten for d
RECURSIVE FractionDigits(_, _)
FractionDigits(r, d) ==
    IF r = 0 THEN <<>>
    ELSE <<DigitChar((10 * r) \div d)>> \o FractionDigits((10 * r) % d, d)

\* Number.prototype.toString()
NumberToString(x) ==
    CASE x.k = "nan" -> <<"N", "a", "N">>
      [] x.k = "inf" -> InfinityWord
      [] x.k = "ninf" -> <<"-">> \o InfinityWord
      [] OTHER ->
            (IF x.n < 0 THEN <<"-">> ELSE <<>>)
            \o NatToString(Abs(x.n) \div x.d)
            \o (IF Abs(x.n) % x.d = 0 THEN <<>>
                ELSE <<".">> \o FractionDigits(Abs(x.n) % x.d, x.d))

\* s with zeros in front up to width characters
RECURSIVE Pad(_, _)
Pad(s, width) == IF Len(s) >= width THEN s ELSE Pad(<<"0">> \o s, width)

\* the civil date <<y, m, d>> of the day z days after 1970-01-01
CivilFromDays(z) ==
    LET zz == z + 719468
        era == zz \div 146097
        doe == zz - era * 146097
        yoe == (doe - doe \div 1460 + doe \div 36524 - doe \div 146096) \div 365
        doy == doe - (365 * yoe + yoe \div 4 - yoe \div 100)
        mp == (5 * doy + 2) \div 153
        d == doy - (153 * mp + 2) \div 5 + 1
        m == IF mp < 10 THEN mp + 3 ELSE mp - 9
        y == yoe + era * 400
    IN <<IF m <= 2 THEN y + 1 ELSE y, m, d>>

\* Date.prototype.toISOString() of a valid Date (years 0000 to 9999)
ToISOString(dt) ==
    LET civil == CivilFromDays(dt.n \div 24)
    IN Pad(NatToString(civil[1]), 4) \o <<"-">> \o Pad(NatToString(civil[2]), 2)
       \o <<"-">> \o Pad(NatToString(civil[3]), 2) \o <<"T">>
       \o Pad(NatToString(dt.n % 24), 2)
       \o <<":", "0", "0", ":", "0", "0", ".", "0", "0", "0", "Z">>

\* JSON.stringify(date): toJSON gives null for an Invalid Date
JsonStringify(dt) ==
    IF dt.k = "nan" THEN <<"n", "u", "l", "l">>
    ELSE <<"\"">> \o ToISOString(dt) \o <<"\"">>

\* String.prototype.slice(from, to) with 0 <= from <= to
Slice(s, from, to) == SubSeq(s, from + 1, Min(to, Len(s)))

\* the text unparse writes for one value
safe(value) ==
    CASE value.t = "date" -> Slice(JsonStringify(value), 1, 25)
      [] value.t = "num" -> NumberToString(value)
      [] OTHER -> value.s

\* Object.keys of a record built from a row with the header fields: id comes
\* first, the row's own keys follow in their order
RecordKeys(fields) == <<"id">> \o SelectSeq(fields, LAMBDA col : col # "id")

\* Papa.unparse(records) for records built from rows with the header fields,
\* read back: no record gives the empty text, which has no header and for
\* which Papa.parse reports that it found no delimiter
Unparse(records, fields) ==
    IF records = <<>>
    THEN [File(<<>>, <<>>) EXCEPT
            !.errors = <<"Unable to auto-detect delimiting character; defaulted to ','">>]
    ELSE File(RecordKeys(fields),
              [i \in 1..Len(records) |->
                  [null |-> FALSE,
                   cells |-> [col \in Range(RecordKeys(fields)) |-> safe(records[i][col])]]])

(***************************************************************************)
(* State                                                                   *)
(***************************************************************************)
VARIABLES
    data,          \* App: [null, rows], the dataset or null
    error,         \* App: the error message shown, kind "null" when none
    filters,       \* Dashboard: the filter state (the default while unmounted)
    papaLoaded,    \* whether window.Papa is defined
    inflight,      \* the files handed to Papa.parse whose callback has not run
    thrown,        \* the last exception no handler caught
    source,        \* the parsed rows the dataset was built from
    sourceFields,  \* the header fields of the file the dataset was built from
    wasReset       \* whether handleReset has run since the page was opened

vars ==
    <<data, error, filters, papaLoaded, inflight, thrown, source, sourceFields, wasReset>>

NullData == [null |-> TRUE, rows |-> <<>>]
Loaded(rows) == [null |-> FALSE, rows |-> rows]

Message(kind, text, cols) == [kind |-> kind, text |-> text, cols |-> cols]
NoError == Message("null", "", <<>>)
\* "Parsing library not loaded yet. Please try again in a moment."
NotLoadedError == Message("nolib", "", <<>>)
\* `Error parsing CSV: ${errors[0].message}`
ParseErrorMessage(text) == Message("parse", text, <<>>)
\* `Missing required columns: ${missingColumns.join(', ')}`
MissingMessage(cols) == Message("missing", "", cols)
\* `CSV parsing error: ${error.message}`
CsvErrorMessage(text) == Message("csv", text, <<>>)

NothingThrown == [kind |-> "none", row |-> 0]
\* the row number without the header row
RowErrorOneBased(index) == [kind |-> "row", row |-> index + 1]

\* new Error(`Error processing row ${index + 2}: ${e.message}`)
RowError(index) == [kind |-> "row", row |-> index + 2]

\* the Dashboard is rendered iff data is truthy (an empty array is)
DashboardMounted == ~ data.null

\* rendering the Dashboard raises: no error boundary catches it and React
\* unmounts the whole tree, after which no handler of the page runs
Crashed ==
    /\ DashboardMounted
    /\ \/ FilterThrows(data.rows, filters)
       \/ TableThrows(FilteredData(data.rows, filters))

(***************************************************************************)
(* Operations                                                              *)
(***************************************************************************)
Init ==
    /\ data = NullData
    /\ error = NoError
    /\ filters = DefaultFilters
    /\ papaLoaded = FALSE
    /\ inflight = {}
    /\ thrown = NothingThrown
    /\ source = <<>>
    /\ sourceFields = <<>>
    /\ wasReset = FALSE

\* the papaparse script element has loaded: window.Papa is defined
ScriptLoaded ==
    /\ ~ papaLoaded
    /\ papaLoaded' = TRUE
    /\ UNCHANGED <<data, error, filters, inflight, thrown, source, sourceFields, wasReset>>

\* FileUpload.onDrop with one accepted file (the upload view is shown)
onDrop(file) ==
    /\ data.null
    /\ IF ~ papaLoaded
       THEN /\ error' = NotLoadedError
            /\ UNCHANGED inflight
       ELSE /\ Cardinality(inflight) < MaxInflight
            /\ file \notin inflight
            /\ error' = NoError
            /\ inflight' = inflight \cup {file}
    /\ UNCHANGED <<data, filters, papaLoaded, thrown, source, sourceFields, wasReset>>

\* App.handleDataLoaded; a Dashboard that mounts starts with the default
\* filters, one that is already mounted keeps its filter state
handleDataLoaded(loadedData) ==
    /\ data' = Loaded(loadedData)
    /\ error' = NoError
    /\ filters' = IF data.null THEN DefaultFilters ELSE filters

\* the complete callback of Papa.parse
ParseComplete(file) ==
    /\ file \in inflight
    /\ file.io = ""
    /\ ~ Crashed
    /\ inflight' = inflight \ {file}
    /\ UNCHANGED papaLoaded
    /\ IF file.errors # <<>>
       THEN /\ error' = ParseErrorMessage(file.errors[1])
            /\ UNCHANGED <<data, filters, thrown, source, sourceFields, wasReset>>
       ELSE IF MissingColumns(file.fields) # <<>>
       THEN /\ error' = MissingMessage(MissingColumns(file.fields))
            /\ UNCHANGED <<data, filters, thrown, source, sourceFields, wasReset>>
       ELSE IF FirstThrow(file.data) >= 0
       THEN \* the Error thrown at line 112 leaves the callback uncaught
            /\ thrown' = RowError(FirstThrow(file.data))
            /\ UNCHANGED <<data, error, filters, source, sourceFields, wasReset>>
       ELSE /\ handleDataLoaded(ProcessedData(file.data))
            /\ source' = file.data
            /\ sourceFields' = file.fields
            /\ UNCHANGED <<thrown, wasReset>>

\* the error callback of Papa.parse
ParseError(file) ==
    /\ file \in inflight
    /\ file.io # ""
    /\ ~ Crashed
    /\ inflight' = inflight \ {file}
    /\ error' = CsvErrorMessage(file.io)
    /\ UNCHANGED <<data, filters, papaLoaded, thrown, source, sourceFields, wasReset>>

\* Filters.handleDateChange
handleDateChange(range) ==
    /\ DashboardMounted /\ ~ Crashed
    /\ filters' = [filters EXCEPT !.dateRange = range]
    /\ UNCHANGED <<data, error, papaLoaded, inflight, thrown, source, sourceFields, wasReset>>

\* Filters.handleAdGroupChange, with the value of an option of the select
handleAdGroupChange(group) ==
    /\ DashboardMounted /\ ~ Crashed
    /\ group \in AdGroupOptions(data.rows)
    /\ filters' = [filters EXCEPT !.adGroup = group]
    /\ UNCHANGED <<data, error, papaLoaded, inflight, thrown, source, sourceFields, wasReset>>

\* Filters.clearFilters
clearFilters ==
    /\ DashboardMounted /\ ~ Crashed
    /\ filters' = DefaultFilters
    /\ UNCHANGED <<data, error, papaLoaded, inflight, thrown, source, sourceFields, wasReset>>

\* App.handleReset: the Dashboard unmounts and its state is dropped
handleReset ==
    /\ DashboardMounted /\ ~ Crashed
    /\ data' = NullData
    /\ error' = NoError
    /\ filters' = DefaultFilters
    /\ source' = <<>>
    /\ sourceFields' = <<>>
    /\ wasReset' = TRUE
    /\ UNCHANGED <<papaLoaded, inflight, thrown>>

\* Dashboard.exportData: the text is handed to the browser as the download
\* report.csv (an alert, were Papa undefined); no state of the page changes
exportData ==
    /\ DashboardMounted /\ ~ Crashed
    /\ UNCHANGED vars

AdGroupValues == {AllAdGroups, gA, gB}

Next ==
    \/ ScriptLoaded
    \/ \E file \in Files : onDrop(file)
    \/ \E file \in Files : ParseComplete(file)
    \/ \E file \in Files : ParseError(file)
    \/ \E range \in PickerRanges : handleDateChange(range)
    \/ \E group \in AdGroupValues : handleAdGroupChange(group)
    \/ clearFilters
    \/ exportData
    \/ handleReset

Spec == Init /\ [][Next]_vars

\* one load of any engine file, and the dashboard session that follows it
InitEngine ==
    /\ data = NullData
    /\ error = NoError
    /\ filters = DefaultFilters
    /\ papaLoaded = TRUE
    /\ inflight \in {{file} : file \in EngineFiles}
    /\ thrown = NothingThrown
    /\ source = <<>>
    /\ sourceFields = <<>>
    /\ wasReset = FALSE

NextEngine ==
    \/ \E file \in EngineFiles : ParseComplete(file)
    \/ \E range \in PickerRanges : handleDateChange(range)
    \/ \E group \in AdGroupValues : handleAdGroupChange(group)
    \/ clearFilters
    \/ exportData

SpecEngine == InitEngine /\ [][NextEngine]_vars

(***************************************************************************)
(* The values the Dashboard derives from its state on every render         *)
(***************************************************************************)
filteredData == FilteredData(data.rows, filters)
summary == Summary(filteredData)
funnelData == FunnelData(summary)
\* the csv of exportData, as the table read back from it
csv == Unparse(filteredData, sourceFields)

\* the filter callback runs without raising
FilterRuns == DashboardMounted /\ ~ FilterThrows(data.rows, filters)

(***************************************************************************)
(* Aggregation                                                             *)
(***************************************************************************)
RECURSIVE SumColumn(_, _)
SumColumn(rows, col) ==
    IF rows = <<>> THEN Zero ELSE Add(Head(rows)[col], SumColumn(Tail(rows), col))

RECURSIVE SumRevenue(_)
SumRevenue(rows) ==
    IF rows = <<>> THEN Zero
    ELSE Add(Mul(Head(rows)["Subscriptions"], Head(rows)["Subscription Value"]),
             SumRevenue(Tail(rows)))

\* C1: for the records fed to the summary, the totals Clicks, Cost, Installs,
\* Trials and Subscriptions are the sums of these fields over the records, and
\* the total stored under 'Subscription Value' is the sum over the records of
\* Subscriptions * Subscription Value.
C1_TotalsAreSums ==
    FilterRuns =>
        /\ \A col \in {"Clicks", "Cost", "Installs", "Trials", "Subscriptions"} :
              summary[col] = SumColumn(filteredData, col)
        /\ summary["Subscription Value"] = SumRevenue(filteredData)

\* two records or more are summed, and the revenue differs from the plain sum
\* of the Subscription Value column
C1_Witness ==
    /\ FilterRuns
    /\ Len(filteredData) >= 2
    /\ IsFinite(summary["Subscription Value"])
    /\ summary["Cost"].n > 0
    /\ summary["Subscription Value"] # SumColumn(filteredData, "Subscription Value")

\* numerator and denominator of each derived ratio
RatioParts(s, key) ==
    CASE key = "cpi" -> <<s["Cost"], s["Installs"]>>
      [] key = "installRate" -> <<s["Installs"], s["Clicks"]>>
      [] key = "installToTrialRate" -> <<s["Trials"], s["Installs"]>>
      [] key = "trialCost" -> <<s["Cost"], s["Trials"]>>
      [] key = "installToPaidRate" -> <<s["Subscriptions"], s["Installs"]>>
      [] key = "cac" -> <<s["Cost"], s["Subscriptions"]>>
      [] key = "valueCostRatio" -> <<s["Subscription Value"], s["Cost"]>>
      [] key = "overallConversion" -> <<s["Subscriptions"], s["Clicks"]>>
      [] key = "roi" -> <<Sub(s["Subscription Value"], s["Cost"]), s["Cost"]>>
      [] key = "trialToSubscription" -> <<s["Subscriptions"], s["Trials"]>>

RatioValue(s, key) ==
    IF key = "trialToSubscription" THEN TrialToSubscription(s) ELSE s[key]

\* C2: every derived ratio is numerator / denominator when the summed
\* denominator is not 0 and exactly 0 when it is 0, and is never NaN or
\* Infinity; for no records every total and ratio is 0.
C2_RatiosAreSafe ==
    FilterRuns =>
        /\ \A key \in RatioKeys \cup {"trialToSubscription"} :
              LET num == RatioParts(summary, key)[1]
                  den == RatioParts(summary, key)[2]
                  val == RatioValue(summary, key)
              IN /\ den = Zero => val = Zero
                 /\ den # Zero => val = Div(num, den)
                 /\ IsFinite(val)
        /\ filteredData = <<>> =>
              /\ \A key \in TotalKeys \cup RatioKeys : summary[key] = Zero
              /\ TrialToSubscription(summary) = Zero

\* with finite totals every ratio obeys the safe-division rule and is finite
FiniteTotalsGiveSafeRatios ==
    (FilterRuns /\ \A key \in TotalKeys : IsFinite(summary[key])) => C2_RatiosAreSafe

(***************************************************************************)
(* Filtering                                                               *)
(***************************************************************************)
\* the record passes: the date part on Start Date alone, and the ad group
Keeps(item, f) ==
    /\ \/ ~ f.dateRange.from.set
       \/ /\ item["Start Date"].k = "fin"
          /\ item["Start Date"].n >= f.dateRange.from.v
          /\ (~ f.dateRange.to.set \/ item["Start Date"].n <= f.dateRange.to.v)
    /\ (f.adGroup = AllAdGroups \/ item["Ad Group"].s = f.adGroup)

\* the indices of the records that pass, in increasing order
RECURSIVE KeptFrom(_, _, _)
KeptFrom(rows, f, i) ==
    IF i > Len(rows) THEN <<>>
    ELSE (IF Keeps(rows[i], f) THEN <<rows[i]>> ELSE <<>>) \o KeptFrom(rows, f, i + 1)

OtherEndDates == {InvalidDate, DateAt(0), DateAt(24 * DaysFromCivil(2024, 1, 18))}

\* C3: the filtered set is the order-preserving subsequence of exactly the
\* records whose Start Date is in the date range (from unset, or Start Date >=
\* from and (to unset or Start Date <= to)) and whose Ad Group is selected
\* ('All Ad Groups' or equal); End Date does not influence it and the dataset
\* stays what the load produced.
C3_FilterIsSubsequence ==
    FilterRuns =>
        /\ filteredData = KeptFrom(data.rows, filters, 1)
        /\ \A other \in OtherEndDates :
              FilteredData([i \in 1..Len(data.rows) |->
                               [data.rows[i] EXCEPT !["End Date"] = other]], filters)
                = [i \in 1..Len(filteredData) |->
                               [filteredData[i] EXCEPT !["End Date"] = other]]
        /\ data.rows = ProcessedData(source)

\* a date range with both ends and an ad group are selected; some records
\* pass, some are dropped, and one that passes ends after the range
C3_Witness ==
    /\ FilterRuns
    /\ filters.dateRange.from.set /\ filters.dateRange.to.set
    /\ filters.adGroup # AllAdGroups
    /\ filteredData # <<>>
    /\ Len(filteredData) < Len(data.rows)
    /\ \E i \in 1..Len(filteredData) :
          filteredData[i]["End Date"].n > filters.dateRange.to.v

HasInvalidStart(item) == item["Start Date"].k = "nan"

C5_FilterNeverFails == DashboardMounted => ~ FilterThrows(data.rows, filters)

(***************************************************************************)
(* Loading                                                                 *)
(***************************************************************************)
HasAllRequired(fields) == Range(REQUIRED_COLUMNS) \subseteq Range(fields)

\* the position of a required column in REQUIRED_COLUMNS
RequiredIndex(col) == CHOOSE i \in 1..Len(REQUIRED_COLUMNS) : REQUIRED_COLUMNS[i] = col

\* cols lists exactly the required columns absent from fields, each once, in
\* the order of REQUIRED_COLUMNS
ListsMissing(cols, fields) ==
    /\ Range(cols) = Range(REQUIRED_COLUMNS) \ Range(fields)
    /\ \A i, j \in 1..Len(cols) : i < j => RequiredIndex(cols[i]) < RequiredIndex(cols[j])

\* C6: a parsed table is accepted iff every required column name occurs among
\* its header fields; otherwise the error lists exactly the missing required
\* columns in the order of the required-column list, no row is converted and
\* onDataLoaded is not called.
C6_SchemaValidation ==
    [][\A file \in Files :
          (ParseComplete(file) /\ file.errors = <<>>) =>
              IF HasAllRequired(file.fields)
              THEN \/ /\ data' = Loaded(ProcessedData(file.data))
                      /\ source' = file.data /\ error' = NoError
                   \/ /\ thrown'.kind = "row"
                      /\ data' = data /\ error' = error
              ELSE /\ error'.kind = "missing"
                   /\ ListsMissing(error'.cols, file.fields)
                   /\ data' = data /\ source' = source /\ thrown' = thrown]_vars

\* the load of a table that lacks only 'Subscription Value' was rejected
\* naming exactly that column
C6_Witness ==
    /\ error.kind = "missing"
    /\ error.cols = <<"Subscription Value">>
    /\ data.null
    /\ FileNoValue \notin inflight

\* what parseInt(cell, 10) || 0 and parseFloat(cell) || 0 are for the cells
\* of the input rows
ExpectedNumber(col, cell) ==
    CASE cell = s100 -> Num(100) [] cell = s50 -> Num(50) [] cell = s20 -> Num(20)
      [] cell = s10 -> Num(10) [] cell = s7 -> Num(7) [] cell = s5 -> Num(5)
      [] cell = s4 -> Num(4) [] cell = s2 -> Num(2) [] cell = s1 -> Num(1)
      [] cell = s0 -> Num(0)
      [] cell = sNeg1 -> Num(-1)
      [] cell = sSp7 -> Num(7)
      [] cell = s12abc -> Num(12)
      [] cell = sEmpty -> Num(0)
      [] cell = sAbc -> Num(0)
      [] cell = sHalf -> IF col \in IntColumns THEN Num(0) ELSE Frac(1, 2)
      [] cell = sDotFive -> IF col \in IntColumns THEN Num(0) ELSE Frac(1, 2)
      [] cell = s2p5 -> IF col \in IntColumns THEN Num(2) ELSE Frac(5, 2)
      [] cell = InfinityWord -> IF col \in IntColumns THEN Num(0) ELSE PosInf

\* C7: after a successful load every one of the seven numeric fields of every
\* record is a number and not NaN: the parsed value of a numeric cell (a
\* negative one stays negative), 0 for an empty or non-numeric cell; a bad
\* numeric cell does not fail the load.
C7_NumericFields ==
    /\ DashboardMounted =>
          /\ Len(data.rows) = Len(source)
          /\ \A i \in 1..Len(data.rows) : \A col \in IntColumns \cup FloatColumns :
                /\ data.rows[i][col].t = "num"
                /\ ~ IsNaN(data.rows[i][col])
                /\ data.rows[i][col] = ExpectedNumber(col, source[i].cells[col])
    \* every file of the engine specification has the required columns and
    \* object rows: its load succeeds whatever its numeric cells hold
    /\ inflight = {} => (DashboardMounted /\ error = NoError /\ thrown = NothingThrown)

\* a loaded record built from a row with a negative, an empty, a non-numeric
\* and a partly numeric cell
C7_Witness ==
    /\ DashboardMounted
    /\ \E i \in 1..Len(source) :
          /\ source[i].cells["Subscriptions"] = sNeg1
          /\ source[i].cells["Trials"] = sEmpty
          /\ source[i].cells["Avg. CPC"] = sAbc
          /\ source[i].cells["Installs"] = s12abc
          /\ data.rows[i]["Subscriptions"] = Num(-1)
          /\ data.rows[i]["Trials"] = Zero
          /\ data.rows[i]["Avg. CPC"] = Zero

\* C8: after a successful load every record's id is its zero-based position
\* in the parsed rows (so ids are pairwise distinct), and every non-required
\* column keeps its raw string.
C8_IdIsPosition ==
    DashboardMounted =>
        \A i \in 1..Len(data.rows) :
            /\ data.rows[i]["id"] = Num(i - 1)
            /\ \A col \in DOMAIN source[i].cells \ (Range(REQUIRED_COLUMNS) \cup {"id"}) :
                  data.rows[i][col] = Str(source[i].cells[col])

\* the load of the file fails: a read error, a CSV parse error, a missing
\* required column, or a row whose conversion raises
LoadFails(file) ==
    \/ file.io # ""
    \/ file.errors # <<>>
    \/ ~ HasAllRequired(file.fields)
    \/ \E i \in 1..Len(file.data) : file.data[i].null

\* C9: every failed load ends with an error message in the App's error state
\* and with the dataset as it was (setData is not called).
C9_FailedLoadShowsError ==
    [][\A file \in Files :
          ((ParseComplete(file) \/ ParseError(file)) /\ LoadFails(file)) =>
              (error'.kind # "null" /\ data' = data)]_vars

\* C10: when the conversion of the row at zero-based index i raises, the
\* batch fails with an error naming row i + 2 and nothing is handed to
\* onDataLoaded, not even the rows before i.
C10_RowFaultFailsBatch ==
    [][\A file \in Files :
          (/\ ParseComplete(file)
           /\ file.errors = <<>> /\ HasAllRequired(file.fields)
           /\ \E i \in 1..Len(file.data) : file.data[i].null) =>
              \E i \in 1..Len(file.data) :
                  /\ file.data[i].null
                  /\ \A j \in 1..(i - 1) : ~ file.data[j].null
                  /\ thrown' = [kind |-> "row", row |-> (i - 1) + 2]
                  /\ data' = data /\ source' = source /\ error' = error]_vars

\* the batch whose row at index 1 raises, after a good row at index 0, has
\* failed naming row 3, and no dataset was set
C10_Witness ==
    /\ thrown = [kind |-> "row", row |-> 3]
    /\ data.null
    /\ FileNullRow \notin inflight

(***************************************************************************)
(* Filtering, continued                                                    *)
(***************************************************************************)
\* C11: filtering is idempotent: applying the filter of the current filter
\* state to the already filtered records returns the filtered records again,
\* the same elements in the same order.
C11_FilterIdempotent ==
    FilterRuns => FilteredData(filteredData, filters) = filteredData

\* a filter is set that keeps several records, which differ, and drops one
C11_Witness ==
    /\ FilterRuns
    /\ filters # DefaultFilters
    /\ Len(filteredData) >= 2
    /\ filteredData[1] # filteredData[2]
    /\ Len(filteredData) < Len(data.rows)

\* the complete callback of file runs in this step and hands its records to
\* handleDataLoaded
Loads(file) ==
    /\ file \in inflight
    /\ inflight' = inflight \ {file}
    /\ file.io = "" /\ file.errors = <<>>
    /\ MissingColumns(file.fields) = <<>>
    /\ FirstThrow(file.data) < 0
    /\ data' = Loaded(ProcessedData(file.data))

\* C12: with the identity filter state (ad group 'All Ad Groups', from and to
\* unset) the filtered set is the full dataset, same elements in the same
\* order, records with an invalid date included; and the identity filter state
\* is the state right after a dataset is loaded and right after every
\* clearFilters.
C12_IdentityFilterKeepsAll ==
    [][/\ (DashboardMounted' /\ filters' = DefaultFilters) => filteredData' = data'.rows
       /\ (\E file \in Files : Loads(file)) => filters' = DefaultFilters
       /\ clearFilters => filters' = DefaultFilters]_vars

\* under the identity filter state nothing is dropped
IdentityFilterKeepsAll ==
    (DashboardMounted /\ filters = DefaultFilters) => filteredData = data.rows

\* a load that brings up the Dashboard starts it with the identity filter state
MountStartsWithIdentity ==
    [][(data.null /\ \E file \in Files \cup EngineFiles : Loads(file))
            => (filters' = DefaultFilters /\ filteredData' = data'.rows)]_vars

(***************************************************************************)
(* Export round trip                                                       *)
(***************************************************************************)
\* the complete callback accepts the table and hands its records on
Accepted(file) ==
    /\ file.io = "" /\ file.errors = <<>>
    /\ MissingColumns(file.fields) = <<>>
    /\ FirstThrow(file.data) < 0

\* two Dates on the same UTC day (two Invalid Dates count as the same)
SameDay(a, b) ==
    IF a.k = "nan" \/ b.k = "nan" THEN a.k = b.k
    ELSE a.n \div 24 = b.n \div 24

\* the records loaded from the table agree with records in every numeric
\* field and, to the day, in both dates
SameValues(table, records) ==
    /\ Accepted(table)
    /\ Len(table.data) = Len(records)
    /\ \A i \in 1..Len(records) :
          LET again == ProcessedData(table.data)[i]
          IN /\ \A col \in IntColumns \cup FloatColumns : again[col] = records[i][col]
             /\ \A col \in DateColumns : SameDay(again[col], records[i][col])

\* C13: export round trip: for every loaded dataset and every filter, loading
\* the exported csv through the same validation and normalization gives
\* records equal to the exported ones in every numeric field, with Start Date
\* and End Date equal to the day, and the exported header carries the same
\* column set as the loaded file.
C13_ExportRoundTrip ==
    (DashboardMounted /\ ~ Crashed) =>
        /\ SameValues(csv, filteredData)
        /\ Range(csv.fields) = Range(sourceFields)

\* what the export does keep: when at least one record is exported, the
\* values come back, under the columns of the loaded file and the column id
ExportKeepsValues ==
    (DashboardMounted /\ ~ Crashed /\ filteredData # <<>>) =>
        /\ SameValues(csv, filteredData)
        /\ Range(csv.fields) = Range(sourceFields) \cup {"id"}

\* the export of no record is not accepted back
EmptyExportRejected ==
    (DashboardMounted /\ ~ Crashed /\ filteredData = <<>>) => ~ Accepted(csv)

(***************************************************************************)
(* Funnel                                                                  *)
(***************************************************************************)
\* C14: the funnel projection is always a sequence of four elements named
\* Clicks, Installs, Trials, Subscriptions in that order, each with the value
\* of the summary total of the same name for the current filtered set; no
\* monotonicity between consecutive stages is enforced.
C14_FunnelProjection ==
    FilterRuns =>
        /\ Len(funnelData) = 4
        /\ [i \in 1..4 |-> funnelData[i].name] = <<"Clicks", "Installs", "Trials", "Subscriptions">>
        /\ \A i \in 1..4 :
              /\ funnelData[i].value = summary[funnelData[i].name]
              /\ funnelData[i].value = SumColumn(filteredData, funnelData[i].name)

\* a filter is set and the filtered set has more installs than clicks
C14_Witness ==
    /\ FilterRuns
    /\ filters # DefaultFilters
    /\ Len(filteredData) < Len(data.rows)
    /\ Lt(funnelData[1].value, funnelData[2].value)

(***************************************************************************)
(* Reset                                                                   *)
(***************************************************************************)
\* C15: reset discards all session state: after handleReset the dataset and
\* the error are both null, and every successful load that comes after a reset
\* starts its dashboard with the default identity filter state and shows only
\* the records of the dataset it loaded.
C15_ResetDiscardsSession ==
    [][/\ (DashboardMounted /\ ~ DashboardMounted') => (data' = NullData /\ error' = NoError)
       /\ \A file \in Files :
             (wasReset /\ Loads(file)) =>
                /\ filters' = DefaultFilters
                /\ filteredData' = ProcessedData(file.data)]_vars

\* handleReset leaves the upload view with no dataset, no error and no filter
ResetClearsState ==
    [][(DashboardMounted /\ ~ DashboardMounted')
            => (data' = NullData /\ error' = NoError /\ filters' = DefaultFilters
                /\ wasReset')]_vars

\* the load that brings the Dashboard back after a reset starts it afresh
LoadAfterResetStartsAfresh ==
    [][\A file \in Files :
          (wasReset /\ data.null /\ Loads(file)) =>
             /\ filters' = DefaultFilters
             /\ filteredData' = ProcessedData(file.data)]_vars

====
